---- MODULE Spec2Model ----
(***************************************************************************)
(* Model of Grbl_Esp32/Motors/TrinamicDriverClass.cpp: the TrinamicDriver  *)
(* motor class (construction, init, test, read_settings, set_homing_mode,  *)
(* set_mode, set_disable, debug_message) and its calc_tstep arithmetic.    *)
(*                                                                         *)
(* calc_tstep is C++ floating point: `float` is IEEE-754 binary32 and the  *)
(* literals 60.0 / 100.0 promote the expressions to binary64.  TLC has     *)
(* 32-bit integers only, so the arithmetic is carried out on natural       *)
(* numbers held as little-endian sequences of 15-bit limbs, and a          *)
(* floating-point value is a record [m |-> limbs, e |-> Int] that stands   *)
(* for m * 2^e, rounded to nearest-even after every operation exactly as   *)
(* the hardware / soft-float library does.                                 *)
(***************************************************************************)
EXTENDS Integers, Sequences, FiniteSets, TLC

-----------------------------------------------------------------------------
(* Natural numbers of arbitrary size (limbs, least significant first).     *)

Base == 32768

LimbBits == 15

RECURSIVE Pow2(_)
Pow2(n) == IF n = 0 THEN 1 ELSE 2 * Pow2(n - 1)

RECURSIVE BitLenInt(_)
BitLenInt(x) == IF x = 0 THEN 0 ELSE 1 + BitLenInt(x \div 2)

Rest(a) == IF a = <<>> THEN <<>> ELSE Tail(a)

Low(a) == IF a = <<>> THEN 0 ELSE Head(a)

RECURSIVE BNorm(_)
BNorm(a) ==
    IF a = <<>> THEN <<>>
    ELSE IF a[Len(a)] = 0 THEN BNorm(SubSeq(a, 1, Len(a) - 1)) ELSE a

RECURSIVE BOfInt(_)
BOfInt(n) == IF n = 0 THEN <<>> ELSE <<n % Base>> \o BOfInt(n \div Base)

RECURSIVE BToInt(_)
BToInt(a) == IF a = <<>> THEN 0 ELSE Head(a) + Base * BToInt(Tail(a))

RECURSIVE BAddC(_, _, _)
BAddC(a, b, c) ==
    IF a = <<>> /\ b = <<>>
    THEN (IF c = 0 THEN <<>> ELSE <<c>>)
    ELSE LET s == Low(a) + Low(b) + c
         IN  <<s % Base>> \o BAddC(Rest(a), Rest(b), s \div Base)

BAdd(a, b) == BAddC(a, b, 0)

RECURSIVE BSubB(_, _, _)
BSubB(a, b, bw) ==
    IF a = <<>> THEN <<>>
    ELSE LET d == Head(a) - Low(b) - bw
         IN  <<IF d < 0 THEN d + Base ELSE d>>
                 \o BSubB(Tail(a), Rest(b), IF d < 0 THEN 1 ELSE 0)

BSub(a, b) == BNorm(BSubB(a, b, 0))

RECURSIVE BCmpAt(_, _, _)
BCmpAt(a, b, i) ==
    IF i = 0 THEN 0
    ELSE IF a[i] # b[i] THEN (IF a[i] < b[i] THEN -1 ELSE 1)
    ELSE BCmpAt(a, b, i - 1)

BCmp(a, b) ==
    IF Len(a) # Len(b) THEN (IF Len(a) < Len(b) THEN -1 ELSE 1)
    ELSE BCmpAt(a, b, Len(a))

BLe(a, b) == BCmp(a, b) <= 0

RECURSIVE BMulIntC(_, _, _)
BMulIntC(a, k, c) ==
    IF a = <<>> THEN (IF c = 0 THEN <<>> ELSE <<c>>)
    ELSE LET p == Head(a) * k + c
         IN  <<p % Base>> \o BMulIntC(Tail(a), k, p \div Base)

BMulInt(a, k) == IF k = 0 THEN <<>> ELSE BMulIntC(a, k, 0)

RECURSIVE BMul(_, _)
BMul(a, b) ==
    IF b = <<>> \/ a = <<>> THEN <<>>
    ELSE LET hi == BMul(a, Tail(b))
         IN  BAdd(BMulInt(a, Head(b)), IF hi = <<>> THEN <<>> ELSE <<0>> \o hi)

BShl(a, n) ==
    IF a = <<>> THEN <<>>
    ELSE [i \in 1..(n \div LimbBits) |-> 0] \o BMulInt(a, Pow2(n % LimbBits))

RECURSIVE BDivIntTop(_, _, _)
BDivIntTop(a, k, r) ==
    IF a = <<>> THEN <<>>
    ELSE LET cur == r * Base + a[Len(a)]
         IN  BDivIntTop(SubSeq(a, 1, Len(a) - 1), k, cur % k) \o <<cur \div k>>

BShr(a, n) ==
    LET q == n \div LimbBits
    IN  IF q >= Len(a) THEN <<>>
        ELSE BNorm(BDivIntTop(SubSeq(a, q + 1, Len(a)), Pow2(n % LimbBits), 0))

BBitLen(a) ==
    IF a = <<>> THEN 0 ELSE LimbBits * (Len(a) - 1) + BitLenInt(a[Len(a)])

BBit(a, i) ==
    LET l == i \div LimbBits + 1
    IN  IF l > Len(a) THEN 0 ELSE (a[l] \div Pow2(i % LimbBits)) % 2

\* Binary long division over bits i down to lo of n, continuing from the
\* quotient q and remainder r of the bits above.
RECURSIVE BDivBits(_, _, _, _, _, _)

\* one bit: r2 is the remainder with bit i of n brought down
BDivBit(n, d, i, lo, q, r2) ==
    IF BCmp(r2, d) >= 0
    THEN BDivBits(n, d, i - 1, lo, BAdd(BShl(q, 1), <<1>>), BSub(r2, d))
    ELSE BDivBits(n, d, i - 1, lo, BShl(q, 1), r2)

BDivBits(n, d, i, lo, q, r) ==
    \* the lengths are read so that q and r are values, not pending work
    IF i < lo \/ Len(q) + Len(r) < 0 THEN [q |-> q, r |-> r]
    ELSE BDivBit(n, d, i, lo, q, BAdd(BShl(r, 1), BOfInt(BBit(n, i))))

\* one limb of the dividend per level, most significant first
RECURSIVE BDivLimbs(_, _, _, _, _)

BDivLimb(n, d, l, s) ==
    IF Len(s.q) + Len(s.r) < 0 THEN s ELSE BDivLimbs(n, d, l - 1, s.q, s.r)

BDivLimbs(n, d, l, q, r) ==
    IF l = 0 THEN [q |-> q, r |-> r]
    ELSE BDivLimb(n, d, l,
                  BDivBits(n, d, LimbBits * l - 1, LimbBits * (l - 1), q, r))

\* quotient and remainder of n / d, d > 0
BDivMod(n, d) == BDivLimbs(n, d, Len(n), <<>>, <<>>)

-----------------------------------------------------------------------------
(* IEEE-754 values m * 2^e with round-to-nearest-even.  The operands of    *)
(* calc_tstep stay far inside the normal exponent range, so subnormals and *)
(* infinities are not represented; a zero divisor is handled by the caller.*)

FloatBits == 24

DoubleBits == 53

Zero == [m |-> <<>>, e |-> 0]

IsZero(x) == x.m = <<>>

\* Rounding of n / d * 2^e to p significant bits, ties to even, in steps.
\* the mantissa m1 after rounding carries into bit p: renormalise
RoundCarry(m1, e, p) ==
    IF BBitLen(m1) > p THEN [m |-> BShr(m1, 1), e |-> e + 1]
    ELSE [m |-> m1, e |-> e]

\* m0 is the kept part, low the dropped bits, half their midpoint, sticky
\* whether the division left a remainder
RoundUp(m0, low, half, sticky, e, p) ==
    RoundCarry(IF \/ low > half
                  \/ low = half /\ sticky
                  \/ low = half /\ BBit(m0, 0) = 1
               THEN BAdd(m0, <<1>>) ELSE m0,
               e, p)

RoundKept(qr, drop, m0, e, p) ==
    RoundUp(m0, BToInt(BSub(qr.q, BShl(m0, drop))), Pow2(drop - 1),
            qr.r # <<>>, e + drop, p)

RoundDrop(qr, drop, e, p) == RoundKept(qr, drop, BShr(qr.q, drop), e, p)

\* qr is a quotient of p + 1 or p + 2 bits with its remainder
RoundQuot(qr, e, p) == RoundDrop(qr, BBitLen(qr.q) - p, e, p)

\* the operands scaled by 2^t so that the quotient has the bits to round from
RoundScaled(n, d, t, e, p) ==
    RoundQuot(BDivMod(IF t >= 0 THEN BShl(n, t) ELSE n,
                      IF t >= 0 THEN d ELSE BShl(d, -t)),
              e - t, p)

\* n / d * 2^e rounded to p significant bits, ties to even
RoundRat(n, d, e, p) == RoundScaled(n, d, p + 1 + BBitLen(d) - BBitLen(n), e, p)

FMul(x, y, p) ==
    IF IsZero(x) \/ IsZero(y) THEN Zero
    ELSE RoundRat(BMul(x.m, y.m), <<1>>, x.e + y.e, p)

FDiv(x, y, p) ==
    IF IsZero(x) THEN Zero ELSE RoundRat(x.m, y.m, x.e - y.e, p)

FCvt(x, p) == IF IsZero(x) THEN Zero ELSE RoundRat(x.m, <<1>>, x.e, p)

\* an int converted to float / double (exact below 2^24)
IntF(n) == [m |-> BOfInt(n), e |-> 0]

\* the integer part of a non-negative value
Trunc(x) == IF x.e >= 0 THEN BShl(x.m, x.e) ELSE BShr(x.m, -x.e)

\* x <= y for non-negative values
FLe(x, y) ==
    LET lo == IF x.e < y.e THEN x.e ELSE y.e
    IN  BLe(BShl(x.m, x.e - lo), BShl(y.m, y.e - lo))

UInt32Bits == 32

\* (uint32_t) of a float: the integer part when it fits; outside the range the
\* conversion is undefined, and a build may saturate, wrap or yield zero.
uint32_cast(x) ==
    LET v == Trunc(x)
    IN  IF BBitLen(v) <= UInt32Bits THEN {v}
        ELSE { <<>>,
               BSub(BShl(<<1>>, UInt32Bits), <<1>>),
               BSub(v, BShl(BShr(v, UInt32Bits), UInt32Bits)) }

-----------------------------------------------------------------------------
(* State                                                                   *)

VARIABLES
    motor,                \* the TrinamicDriver objects: fields and chip registers
    pins,                 \* the GPIO lines each object was given
    TRINAMIC_RUN_MODE,    \* build configuration: the default run mode
    USE_TRINAMIC_ENABLE,  \* build configuration: #ifdef USE_TRINAMIC_ENABLE
    axis_settings,        \* axis_settings[axis_index]
    homing_feed_rate,     \* homing_feed_rate->get()
    halted,               \* the firmware stopped on a processor exception
    last,                 \* the call that was made last, and what it returned
    hist,                 \* what has happened to each object so far
    saved,                \* the object as it was before the last set_disable(true)
    calc_args,            \* arguments handed to calc_tstep on its own
    calc_res              \* what calc_tstep returned for them

vars == <<motor, pins, TRINAMIC_RUN_MODE, USE_TRINAMIC_ENABLE, axis_settings,
          homing_feed_rate, halted, last, hist, saved, calc_args, calc_res>>

NumHandles == 2

Handles == 1..NumHandles

\* driver_part_number: the two supported parts and one that is not
PartNumbers == {2130, 5160, 2208}

TRINAMIC_RUN_MODE_STEALTHCHOP == "STEALTHCHOP"

TRINAMIC_RUN_MODE_COOLSTEP == "COOLSTEP"

TRINAMIC_RUN_MODE_STALLGUARD == "STALLGUARD"

Modes ==
    {TRINAMIC_RUN_MODE_STEALTHCHOP, TRINAMIC_RUN_MODE_COOLSTEP,
     TRINAMIC_RUN_MODE_STALLGUARD}

\* _homing_mode is compared with this; a bool stored in _homing_mode is 0 or 1
TRINAMIC_HOMING_STALLGUARD == 1

NORMAL_TCOOLTHRS == 1048575

NORMAL_THIGH == 0

\* Internal clock of the chip (Hz), a double literal of the class header.
TRINAMIC_FCLK == 12000000

\* tmcstepper before the constructor assigns it (and after, for an unsupported
\* part number): the pointer holds whatever the allocation left there
Indeterminate == "indeterminate"

-----------------------------------------------------------------------------
(* calc_tstep                                                              *)

\* float tstep = speed / 60.0 * steps_per_mm * (float)(256 / microsteps);
StepFrequency(speed, steps_per_mm, microsteps) ==
    FCvt(FMul(FMul(FDiv(speed, IntF(60), DoubleBits), steps_per_mm, DoubleBits),
              IntF(256 \div microsteps), DoubleBits),
         FloatBits)

\* tstep = TRINAMIC_FCLK / tstep * percent / 100.0;
RawThreshold(tstep, percent) ==
    FCvt(FDiv(FMul(FDiv(IntF(TRINAMIC_FCLK), tstep, DoubleBits), percent, DoubleBits),
              IntF(100), DoubleBits),
         FloatBits)

\* the second and third statement of calc_tstep, for the step frequency tstep
CastThreshold(tstep, percent) ==
    IF IsZero(tstep)
    THEN {<<>>, BSub(BShl(<<1>>, UInt32Bits), <<1>>)}
    ELSE uint32_cast(RawThreshold(tstep, percent))

\* calc_tstep with the feed rate taken as mm/s: the division by 60.0 left out
calc_tstep_per_second(speed, percent, steps_per_mm, microsteps) ==
    uint32_cast(RawThreshold(
        FCvt(FMul(FMul(speed, steps_per_mm, DoubleBits),
                  IntF(256 \div microsteps), DoubleBits), FloatBits),
        percent))

\* The values calc_tstep(speed, percent) can return when the axis settings are
\* steps_per_mm and microsteps.  A zero step frequency (speed 0, or microsteps
\* above 256) divides by zero; the cast of the infinity is as undefined as the
\* cast of any other value that does not fit.
calc_tstep(speed, percent, steps_per_mm, microsteps) ==
    CastThreshold(StepFrequency(speed, steps_per_mm, microsteps), percent)

\* a value k * 2^e
F(k, e) == [m |-> BOfInt(k), e |-> e]

\* The settings and arguments the model draws from.
\* speeds in mm/min: 0.125, 1, 9, 600, 2000
Speeds == {F(1, -3), F(1, 0), F(9, 0), F(600, 0), F(2000, 0)}

Percents == {IntF(60), IntF(100), IntF(150)}

StepsPerMm == {IntF(1), IntF(80)}

\* the microsteps setting is an int; 3 is a value the chip does not support
Microsteps == {1, 3, 16, 256}

ValidMicrosteps == {1, 2, 4, 8, 16, 32, 64, 128, 256}

\* no entries: f @@ Tabulated is f held as a table of its values
Tabulated == [x \in {} |-> x]

\* calc_tstep over those, worked out once
TStep ==
    [x \in Speeds \X Percents \X StepsPerMm \X Microsteps |->
        calc_tstep(x[1], x[2], x[3], x[4])] @@ Tabulated

-----------------------------------------------------------------------------
(* The object and its chip                                                 *)

\* the registers the class writes, as the chip holds them after power-up
ChipReset ==
    [toff |-> 0, en_pwm_mode |-> 0, pwm_autoscale |-> 0, tbl |-> 0,
     hysteresis_start |-> 0, hysteresis_end |-> 0, sfilt |-> 0,
     diag1_pushpull |-> 0, diag1_stall |-> 0, TCOOLTHRS |-> <<>>, THIGH |-> <<>>,
     microsteps |-> 0, rms_current |-> 0, hold_multiplier |-> Zero, sgt |-> 0]

\* An object before its constructor has run.  No field has an initializer the
\* constructor or init() is seen to rely on, so _is_homing, _homing_mode, _mode
\* and is_active hold whatever the allocation left there.
NewObjects ==
    { [built |-> FALSE, tmcstepper |-> Indeterminate, _driver_part_number |-> 0,
       _is_homing |-> ih, _homing_mode |-> hm, _mode |-> md, is_active |-> ac,
       begun |-> FALSE, regs |-> ChipReset] :
      ih \in BOOLEAN, hm \in {0, 1}, md \in Modes, ac \in BOOLEAN }

PinsReset == [cs_level |-> "unset", cs_mode |-> "unconfigured", disable_level |-> "unset"]

\* tmcstepper points at a driver object
Deref(o) == o.tmcstepper # Indeterminate

\* A register write through tmcstepper.  Through an indeterminate pointer the
\* write does not reach the chip of this object.
SetRegs(o, r) == IF Deref(o) THEN [o EXCEPT !.regs = r] ELSE o

\* tmcstepper->begin()
tmc_begin(o) == IF Deref(o) THEN [o EXCEPT !.begun = TRUE] ELSE o

MaxProbeCode == 3

\* what tmcstepper->test_connection() can return
ProbeCodes == 0..MaxProbeCode

MsgCheckConnection == "Trinamic driver test failed. Check connection."

MsgCheckPower == "Trinamic driver test failed. Check motor power."

MsgPassed == "Trinamic driver test passed."

MsgUnsupported == "Trinamic unsupported p/n"

MsgConfig == "Axis Trinamic TMC Step Dir CS Disable Index"

MsgStallguard == "Stallguard SG_Val Rate SG_Setting"

\* test() with the second case falling into the default
test_power_fault_passes(code) ==
    CASE code = 1 -> [msg |-> MsgCheckConnection, ret |-> FALSE]
      [] OTHER    -> [msg |-> MsgPassed, ret |-> TRUE]

\* test(): the message sent and the value returned for a probe code
test(code) ==
    CASE code = 1 -> [msg |-> MsgCheckConnection, ret |-> FALSE]
      [] code = 2 -> [msg |-> MsgCheckPower, ret |-> FALSE]
      [] OTHER    -> [msg |-> MsgPassed, ret |-> TRUE]

\* run currents in A (0.25) and hold currents in % (50) of the settings store
RunCurrents == {F(1, -2)}

HoldCurrents == {IntF(50)}

\* run_current->get() * 1000.0 handed to a uint16_t parameter
RmsCurrent ==
    [c \in RunCurrents |-> BToInt(Trunc(FMul(c, IntF(1000), DoubleBits)))] @@ Tabulated

\* hold_current->get() / 100.0 handed to a float parameter
HoldMultiplier ==
    [c \in HoldCurrents |-> FCvt(FDiv(c, IntF(100), DoubleBits), FloatBits)] @@ Tabulated

\* read_settings()
read_settings(o) ==
    SetRegs(o, [o.regs EXCEPT
        !.microsteps      = axis_settings.microsteps,
        !.rms_current     = RmsCurrent[axis_settings.run_current],
        !.hold_multiplier = HoldMultiplier[axis_settings.hold_current],
        !.sgt             = axis_settings.stallguard])

\* the first statement of set_mode(): which mode the flags select
SelectMode(o) ==
    IF o._is_homing /\ o._homing_mode = TRINAMIC_HOMING_STALLGUARD
    THEN TRINAMIC_RUN_MODE_STALLGUARD
    ELSE TRINAMIC_RUN_MODE

\* the thresholds of the coolstep branch
NormalThresholds ==
    {[tcoolthrs |-> BOfInt(NORMAL_TCOOLTHRS), thigh |-> BOfInt(NORMAL_THIGH)]}

\* the thresholds of the stallguard branch, from the homing feed rate
StallguardThresholds ==
    { [tcoolthrs |-> tc, thigh |-> th] :
      tc \in TStep[<<homing_feed_rate, IntF(150), axis_settings.steps_per_mm,
                     axis_settings.microsteps>>],
      th \in TStep[<<homing_feed_rate, IntF(60), axis_settings.steps_per_mm,
                     axis_settings.microsteps>>] }

\* the register writes of set_mode() for a mode
ModeRegisters(regs, mode, t) ==
    IF mode = TRINAMIC_RUN_MODE_STEALTHCHOP
    THEN [regs EXCEPT !.toff = 5, !.en_pwm_mode = 1, !.pwm_autoscale = 1]
    ELSE [regs EXCEPT !.tbl = 1, !.toff = 3, !.hysteresis_start = 4,
                      !.hysteresis_end = -2, !.sfilt = 1, !.diag1_pushpull = 0,
                      !.diag1_stall = 1, !.TCOOLTHRS = t.tcoolthrs,
                      !.THIGH = t.thigh]

\* set_mode(): the objects it can leave behind
set_mode(o) ==
    LET mode == SelectMode(o)
        ts   == IF mode \in {TRINAMIC_RUN_MODE_STEALTHCHOP, TRINAMIC_RUN_MODE_COOLSTEP}
                THEN NormalThresholds
                ELSE StallguardThresholds
    IN  { SetRegs([o EXCEPT !._mode = mode], ModeRegisters(o.regs, mode, t)) :
          t \in ts }

\* set_homing_mode(is_homing)
set_homing_mode(o, is_homing) ==
    set_mode([o EXCEPT !._homing_mode = IF is_homing THEN 1 ELSE 0])

\* init(), after SPI.begin()
init(o) ==
    { [o2 EXCEPT !._is_homing = FALSE, !.is_active = TRUE] :
      o2 \in set_mode(read_settings(tmc_begin(o))) }

\* set_disable(disable), the part behind #ifdef USE_TRINAMIC_ENABLE
set_disable(o, disable) ==
    IF ~USE_TRINAMIC_ENABLE THEN {o}
    ELSE IF disable THEN {SetRegs(o, [o.regs EXCEPT !.toff = 0])}
    ELSE set_mode(o)

\* the values of tmcstepper->TSTEP() that debug_message() tells apart
TStepReadings == {"0xFFFFF", "0xFFFFFFFF", "moving"}

\* debug_message(): the messages sent for a TSTEP reading
debug_message(tstep) ==
    IF tstep = "0xFFFFF" \/ tstep = "0xFFFFFFFF" THEN <<>> ELSE <<MsgStallguard>>

-----------------------------------------------------------------------------
(* Calls                                                                   *)

NoCall ==
    [op |-> "none", h |-> 0, flag |-> FALSE, pn |-> 0, probe |-> -1, ret |-> FALSE,
     emitted |-> <<>>, fault |-> FALSE]

NoObject ==
    [built |-> FALSE, tmcstepper |-> Indeterminate, _driver_part_number |-> 0,
     _is_homing |-> FALSE, _homing_mode |-> 0, _mode |-> TRINAMIC_RUN_MODE_COOLSTEP,
     is_active |-> FALSE, begun |-> FALSE, regs |-> ChipReset]

NoSaved == [valid |-> FALSE, reenabled |-> FALSE, applied |-> FALSE, h |-> 0, obj |-> NoObject]

NoArgs == [speed1 |-> Zero, percent1 |-> Zero, speed2 |-> Zero, percent2 |-> Zero]

NoRes == [kind |-> "none", r1 |-> <<>>, r2 |-> <<>>]

\* a method can be called on an object that exists, while the firmware runs
Callable(h) == h \in DOMAIN motor /\ motor[h].built /\ ~halted

\* The call dereferenced an indeterminate tmcstepper and the processor raised
\* an exception: the firmware stops.
Fault(h, call) ==
    /\ ~Deref(motor[h])
    /\ halted' = TRUE
    /\ last' = [call EXCEPT !.fault = TRUE]
    /\ UNCHANGED <<motor, TRINAMIC_RUN_MODE, USE_TRINAMIC_ENABLE, axis_settings,
                   homing_feed_rate, hist, saved, calc_args, calc_res>>

\* The call ran to its end and left object o2; ran_set_mode tells whether it
\* went through set_mode().  When tmcstepper is indeterminate the driver calls
\* it made went to whatever the pointer names.
Return(h, call, o2, used_driver, ran_set_mode) ==
    /\ motor' = [motor EXCEPT ![h] = o2]
    /\ last' = call
    /\ hist' = [hist EXCEPT
                  !.stray[h] = @ \/ (used_driver /\ ~Deref(motor[h])),
                  !.mode_applied[h] = @ \/ ran_set_mode,
                  !.inited[h] = @ \/ call.op = "init",
                  !.early_init = @ \/ (call.op = "init"
                                       /\ \E g \in DOMAIN motor : ~motor[g].built)]
    /\ UNCHANGED <<TRINAMIC_RUN_MODE, USE_TRINAMIC_ENABLE, axis_settings,
                   homing_feed_rate, halted, calc_args, calc_res>>

\* TrinamicDriver::TrinamicDriver(..., driver_part_number, ...)
Construct(h, pn) ==
    LET supported == pn \in {2130, 5160}
        o2 == [motor[h] EXCEPT
                 !.built = TRUE,
                 !._driver_part_number = pn,
                 !.tmcstepper = IF pn = 2130 THEN "TMC2130Stepper"
                                ELSE IF pn = 5160 THEN "TMC5160Stepper" ELSE @]
    IN  /\ h \in DOMAIN motor /\ ~motor[h].built /\ ~halted
        /\ pins' = IF supported
                   THEN [pins EXCEPT ![h].cs_level = "HIGH", ![h].cs_mode = "OUTPUT"]
                   ELSE pins
        /\ saved' = NoSaved
        /\ Return(h, [NoCall EXCEPT !.op = "construct", !.h = h, !.pn = pn,
                        !.emitted = IF supported THEN <<MsgConfig>>
                                    ELSE <<MsgUnsupported>>],
                  o2, FALSE, FALSE)

\* init()
CallInit(h, code) ==
    LET call == [NoCall EXCEPT !.op = "init", !.h = h, !.probe = code,
                               !.ret = test(code).ret,
                               !.emitted = <<test(code).msg>>]
    IN  /\ Callable(h)
        /\ UNCHANGED pins
        /\ \/ Fault(h, [call EXCEPT !.probe = -1, !.ret = FALSE, !.emitted = <<>>])
              /\ UNCHANGED saved
           \/ \E o2 \in init(motor[h]) :
                 /\ saved' = NoSaved
                 /\ Return(h, call, o2, TRUE, TRUE)

\* test()
CallTest(h, code) ==
    LET call == [NoCall EXCEPT !.op = "test", !.h = h, !.probe = code,
                               !.ret = test(code).ret,
                               !.emitted = <<test(code).msg>>]
    IN  /\ Callable(h)
        /\ UNCHANGED pins
        /\ \/ Fault(h, [call EXCEPT !.probe = -1, !.ret = FALSE, !.emitted = <<>>])
              /\ UNCHANGED saved
           \/ /\ saved' = NoSaved
              /\ Return(h, call, motor[h], TRUE, FALSE)

\* read_settings()
CallReadSettings(h) ==
    LET call == [NoCall EXCEPT !.op = "read_settings", !.h = h]
    IN  /\ Callable(h)
        /\ UNCHANGED pins
        /\ \/ Fault(h, call) /\ UNCHANGED saved
           \/ /\ saved' = NoSaved
              /\ Return(h, call, read_settings(motor[h]), TRUE, FALSE)

\* set_homing_mode(is_homing)
CallSetHomingMode(h, is_homing) ==
    LET call == [NoCall EXCEPT !.op = "set_homing_mode", !.h = h, !.flag = is_homing]
    IN  /\ Callable(h)
        /\ UNCHANGED pins
        /\ \/ Fault(h, call) /\ UNCHANGED saved
           \/ \E o2 \in set_homing_mode(motor[h], is_homing) :
                 /\ saved' = NoSaved
                 /\ Return(h, call, o2, TRUE, TRUE)

\* set_mode()
CallSetMode(h) ==
    LET call == [NoCall EXCEPT !.op = "set_mode", !.h = h]
    IN  /\ Callable(h)
        /\ UNCHANGED pins
        /\ \/ Fault(h, call) /\ UNCHANGED saved
           \/ \E o2 \in set_mode(motor[h]) :
                 /\ saved' = NoSaved
                 /\ Return(h, call, o2, TRUE, TRUE)

\* set_disable(disable)
CallSetDisable(h, disable) ==
    LET call == [NoCall EXCEPT !.op = "set_disable", !.h = h, !.flag = disable]
    IN  /\ Callable(h)
        /\ pins' = [pins EXCEPT ![h].disable_level = IF disable THEN "HIGH" ELSE "LOW"]
        /\ \/ USE_TRINAMIC_ENABLE /\ Fault(h, call) /\ UNCHANGED saved
           \/ \E o2 \in set_disable(motor[h], disable) :
                 /\ saved' = IF disable
                             THEN [valid |-> TRUE, reenabled |-> FALSE,
                                   applied |-> hist.mode_applied[h], h |-> h,
                                   obj |-> motor[h]]
                             ELSE IF saved.valid /\ saved.h = h /\ ~saved.reenabled
                             THEN [saved EXCEPT !.reenabled = TRUE]
                             ELSE NoSaved
                 /\ Return(h, call, o2, USE_TRINAMIC_ENABLE,
                           USE_TRINAMIC_ENABLE /\ ~disable)

\* debug_message()
CallDebugMessage(h, tstep) ==
    LET call == [NoCall EXCEPT !.op = "debug_message", !.h = h,
                               !.emitted = debug_message(tstep)]
    IN  /\ Callable(h)
        /\ UNCHANGED pins
        /\ \/ Fault(h, [call EXCEPT !.emitted = <<>>]) /\ UNCHANGED saved
           \/ /\ saved' = NoSaved
              /\ Return(h, call, motor[h], TRUE, FALSE)

-----------------------------------------------------------------------------
(* One driver object, every call                                           *)

\* the settings store: every combination the model draws from
AllSettings ==
    [microsteps : Microsteps, steps_per_mm : StepsPerMm, run_current : RunCurrents,
     hold_current : HoldCurrents, stallguard : {16}]

\* 16 microsteps at 80 steps/mm
SettingsSamples == {s \in AllSettings : s.microsteps = 16 /\ s.steps_per_mm = IntF(80)}

\* 600 mm/min
HomingFeedRates == {F(600, 0)}

InitWith(H) ==
    /\ motor \in [H -> NewObjects]
    /\ pins = [h \in H |-> PinsReset]
    /\ TRINAMIC_RUN_MODE \in {TRINAMIC_RUN_MODE_STEALTHCHOP, TRINAMIC_RUN_MODE_COOLSTEP}
    /\ USE_TRINAMIC_ENABLE \in BOOLEAN
    /\ axis_settings \in SettingsSamples
    /\ homing_feed_rate \in HomingFeedRates
    /\ halted = FALSE
    /\ last = NoCall
    /\ hist = [stray |-> [h \in H |-> FALSE], mode_applied |-> [h \in H |-> FALSE],
               inited |-> [h \in H |-> FALSE], early_init |-> FALSE]
    /\ saved = NoSaved
    /\ calc_args = NoArgs
    /\ calc_res = NoRes

Init == InitWith({1})

Next ==
    \/ \E h \in Handles, pn \in PartNumbers : Construct(h, pn)
    \/ \E h \in Handles, code \in ProbeCodes : CallInit(h, code)
    \/ \E h \in Handles, code \in ProbeCodes : CallTest(h, code)
    \/ \E h \in Handles : CallReadSettings(h)
    \/ \E h \in Handles, b \in BOOLEAN : CallSetHomingMode(h, b)
    \/ \E h \in Handles : CallSetMode(h)
    \/ \E h \in Handles, b \in BOOLEAN : CallSetDisable(h, b)
    \/ \E h \in Handles, t \in TStepReadings : CallDebugMessage(h, t)

Spec == Init /\ [][Next]_vars

-----------------------------------------------------------------------------
(* Several driver objects on one SPI bus: construction and init()          *)

InitBus == InitWith(Handles)

NextBus ==
    \/ \E h \in Handles, pn \in PartNumbers : Construct(h, pn)
    \/ \E h \in Handles, code \in ProbeCodes : CallInit(h, code)

SpecBus == InitBus /\ [][NextBus]_vars

-----------------------------------------------------------------------------
(* calc_tstep on its own                                                   *)

InitCalc ==
    /\ motor = <<>>
    /\ pins = <<>>
    /\ TRINAMIC_RUN_MODE = TRINAMIC_RUN_MODE_COOLSTEP
    /\ USE_TRINAMIC_ENABLE = FALSE
    /\ axis_settings \in AllSettings
    /\ calc_args \in [speed1 : Speeds, percent1 : Percents,
                      speed2 : Speeds, percent2 : Percents]
    /\ homing_feed_rate = calc_args.speed1
    /\ halted = FALSE
    /\ last = NoCall
    /\ hist = [stray |-> <<>>, mode_applied |-> <<>>, inited |-> <<>>,
               early_init |-> FALSE]
    /\ saved = NoSaved
    /\ calc_res = NoRes

Args1 ==
    <<calc_args.speed1, calc_args.percent1, axis_settings.steps_per_mm,
      axis_settings.microsteps>>

Args2 ==
    <<calc_args.speed2, calc_args.percent2, axis_settings.steps_per_mm,
      axis_settings.microsteps>>

\* calc_tstep(speed1, percent1) and calc_tstep(speed2, percent2)
CalcPair ==
    /\ calc_res.kind = "none"
    /\ \E r1 \in TStep[Args1], r2 \in TStep[Args2] :
          calc_res' = [kind |-> "calc", r1 |-> r1, r2 |-> r2]
    /\ UNCHANGED <<motor, pins, TRINAMIC_RUN_MODE, USE_TRINAMIC_ENABLE, axis_settings,
                   homing_feed_rate, halted, last, hist, saved, calc_args>>

\* the two calls of the stallguard branch of set_mode()
CalcWindow ==
    /\ calc_res.kind = "none"
    /\ \E t \in StallguardThresholds :
          calc_res' = [kind |-> "window", r1 |-> t.tcoolthrs, r2 |-> t.thigh]
    /\ UNCHANGED <<motor, pins, TRINAMIC_RUN_MODE, USE_TRINAMIC_ENABLE, axis_settings,
                   homing_feed_rate, halted, last, hist, saved, calc_args>>

NextCalc == CalcPair \/ CalcWindow

SpecCalc == InitCalc /\ [][NextCalc]_vars

-----------------------------------------------------------------------------
(* Properties                                                              *)

Obj(h) == motor[h]

\* the last call was made on h and returned
Returned(h, op) == last.op = op /\ last.h = h /\ ~last.fault

\* the last call on h went through set_mode()
RanSetMode(h) ==
    \/ Returned(h, "init")
    \/ Returned(h, "set_homing_mode")
    \/ Returned(h, "set_mode")
    \/ Returned(h, "set_disable") /\ ~last.flag /\ USE_TRINAMIC_ENABLE

\* C1: with the stallguard homing strategy, set_homing_mode(true) on an
\* initialized object sets the homing flag and leaves the mode at
\* StallguardHoming; set_homing_mode(false) clears the flag and leaves the
\* default run mode.
C1_HomingModeSelectsStallguard ==
    \A h \in DOMAIN motor :
        (Returned(h, "set_homing_mode") /\ hist.inited[h] /\ Deref(Obj(h))) =>
            IF last.flag
            THEN Obj(h)._homing_mode = TRINAMIC_HOMING_STALLGUARD =>
                    /\ Obj(h)._is_homing
                    /\ Obj(h)._mode = TRINAMIC_RUN_MODE_STALLGUARD
            ELSE /\ ~Obj(h)._is_homing
                 /\ Obj(h)._mode = TRINAMIC_RUN_MODE

\* C2: an object constructed with an unsupported part number reported the
\* error, and no call on it ever goes to a driver.
C2_UnsupportedPartStaysInert ==
    \A h \in DOMAIN motor :
        (Obj(h).built /\ Obj(h)._driver_part_number \notin {2130, 5160}) =>
            /\ ~hist.stray[h]
            /\ Returned(h, "construct") => last.emitted = <<MsgUnsupported>>

\* C3: once set_mode() has run, the mode is StallguardHoming only while the
\* homing flag is set, and with the flag clear it is the default run mode.
C3_StallguardOnlyWhileHoming ==
    \A h \in DOMAIN motor :
        hist.mode_applied[h] =>
            /\ Obj(h)._mode = TRINAMIC_RUN_MODE_STALLGUARD => Obj(h)._is_homing
            /\ ~Obj(h)._is_homing => Obj(h)._mode = TRINAMIC_RUN_MODE

\* C4: with USE_TRINAMIC_ENABLE, set_disable(true) then set_disable(false)
\* brings back the mode that was active before, with the registers a direct
\* set_mode() from that state writes, and a non-zero off-time.
C4_DisableEnableRestores ==
    (saved.valid /\ saved.reenabled /\ saved.applied /\ USE_TRINAMIC_ENABLE
       /\ Returned(saved.h, "set_disable") /\ Deref(saved.obj)) =>
        /\ Obj(saved.h)._mode = saved.obj._mode
        /\ Obj(saved.h).regs \in {o.regs : o \in set_mode(saved.obj)}
        /\ Obj(saved.h).regs.toff # 0

TestOutcome(call) ==
    /\ Len(call.emitted) = 1
    /\ call.probe = 1 => call.emitted[1] = MsgCheckConnection /\ ~call.ret
    /\ call.probe = 2 => call.emitted[1] = MsgCheckPower /\ ~call.ret
    /\ call.probe \notin {1, 2} => call.emitted[1] = MsgPassed /\ call.ret

\* C5: every call of test() sends exactly one message, the one of its probe
\* code (1: check connection, failure; 2: check motor power, failure; any
\* other: passed, success), and changes nothing of the object or its chip.
C5_TestReportsProbe ==
    [][(last'.op = "test" /\ ~last'.fault) => (TestOutcome(last') /\ motor' = motor)]_vars

C5_Witness ==
    /\ last.op = "test" /\ ~last.fault /\ last.probe = 2
    /\ last.emitted = <<MsgCheckPower>> /\ ~last.ret
    /\ Deref(Obj(last.h)) /\ hist.inited[last.h]

\* C6: when every object on the bus was constructed before the first init(),
\* then at any init() every object's chip select is high and an output.
C6_ChipSelectsIdleAtInit ==
    (last.op = "init" /\ ~last.fault /\ ~hist.early_init) =>
        \A g \in DOMAIN motor :
            pins[g].cs_level = "HIGH" /\ pins[g].cs_mode = "OUTPUT"

-----------------------------------------------------------------------------

Min(a, b) == IF a < b THEN a ELSE b

\* floor(FCLK / (speed/60 * steps_per_mm * (256/microsteps)) * percent/100),
\* exactly: x = <<speed, percent, steps_per_mm, microsteps>>
ExactFloor(x) ==
    LET num == BMul(BMulInt(BMulInt(BOfInt(TRINAMIC_FCLK), 60), x[4]), x[2].m)
        den == BMulInt(BMulInt(BMul(x[1].m, x[3].m), 256), 100)
        ne  == x[2].e
        de  == x[1].e + x[3].e
        lo  == Min(ne, de)
    IN  BDivMod(BShl(num, ne - lo), BShl(den, de - lo)).q

Floor ==
    [x \in Speeds \X Percents \X StepsPerMm \X Microsteps |-> ExactFloor(x)] @@ Tabulated

ValidArgs == axis_settings.microsteps \in ValidMicrosteps

\* the exact threshold is below 2^31
Small(x) == BBitLen(Floor[x]) <= 31

\* |r - f| <= 1 + f / 2^22
Near(r, f) ==
    LET d == IF BLe(r, f) THEN BSub(f, r) ELSE BSub(r, f)
    IN  BLe(d, BAdd(<<1>>, BShr(f, 22)))

SpecExample == <<F(600, 0), IntF(150), IntF(80), 16>>

\* C7 as stated: for valid arguments calc_tstep returns the exact floor.
C7_EqualsExactFloor ==
    (calc_res.kind = "calc" /\ ValidArgs) => calc_res.r1 = Floor[Args1]

\* C7 as it holds: for valid arguments whose exact threshold is below 2^31,
\* calc_tstep is within 1 + floor/2^22 of the exact floor (the arithmetic is
\* rounded to float), and on the example of the specification it is 1406.
\* A threshold that does not fit 32 bits has no defined value.
C7_NearExactFloor ==
    (calc_res.kind = "calc" /\ ValidArgs /\ Small(Args1)) =>
        /\ Near(calc_res.r1, Floor[Args1])
        /\ Args1 = SpecExample => calc_res.r1 = BOfInt(1406)

C7_Witness ==
    /\ calc_res.kind = "calc" /\ ValidArgs /\ Small(Args1)
    /\ calc_res.r1 # Floor[Args1]
    /\ Near(calc_res.r1, Floor[Args1])

\* C8: for valid arguments calc_tstep does not grow with the speed and does
\* not shrink with the percentage, and in the stallguard branch of set_mode()
\* THIGH (60%) is not above TCOOLTHRS (150%).
C8_Monotone ==
    /\ (calc_res.kind = "calc" /\ ValidArgs) =>
          /\ (FLe(calc_args.speed1, calc_args.speed2)
                /\ calc_args.percent1 = calc_args.percent2)
             => BLe(calc_res.r2, calc_res.r1)
          /\ (calc_args.speed1 = calc_args.speed2
                /\ FLe(calc_args.percent1, calc_args.percent2))
             => BLe(calc_res.r1, calc_res.r2)
    /\ (calc_res.kind = "window" /\ ValidArgs) => BLe(calc_res.r2, calc_res.r1)

-----------------------------------------------------------------------------

\* C9: init() marks the object active only when its test() reported success,
\* and when it returns the homing flag is clear and the mode is the default
\* run mode.
C9_InitActivatesOnSuccess ==
    \A h \in DOMAIN motor :
        (Returned(h, "init") /\ Deref(Obj(h))) =>
            /\ Obj(h).is_active => last.ret
            /\ ~Obj(h)._is_homing
            /\ Obj(h)._mode = TRINAMIC_RUN_MODE

\* C10: after a call that went through set_mode(), the chip's silent PWM
\* mode is on, with off-time 5, exactly when the mode is StealthChop.
C10_SilentPwmOnlyInStealthChop ==
    \A h \in DOMAIN motor :
        (RanSetMode(h) /\ Deref(Obj(h))) =>
            /\ Obj(h)._mode = TRINAMIC_RUN_MODE_STEALTHCHOP
                  <=> (Obj(h).regs.en_pwm_mode = 1 /\ Obj(h).regs.pwm_autoscale = 1)
            /\ Obj(h)._mode = TRINAMIC_RUN_MODE_STEALTHCHOP => Obj(h).regs.toff = 5

====
